---- MODULE Spec2Model ----
(***************************************************************************)
(* Model of the CalendarGenerator component (src/unnamed/part_000).        *)
(*                                                                         *)
(* A JavaScript Date is modelled by its local calendar day, counted in     *)
(* days since 1970-01-01 (the ECMAScript Day(t) of the local time value);  *)
(* the time of day is dropped, no handler reads it.  Strings are           *)
(* sequences of one-character strings, so that trim(), format() and the    *)
(* JSON text kept in localStorage are computed character by character.     *)
(***************************************************************************)
EXTENDS Integers, Sequences, FiniteSets, TLC

VARIABLES
    currentDate,      \* useState<Date>(new Date())            (line 47)
    events,           \* useState<Event[]>([])                 (line 48)
    selectedDate,     \* useState<Date | null>(null)           (line 49): <<>> or <<day>>
    newEvent,         \* useState<Omit<Event,"id">>            (line 50)
    eventDialogOpen,  \* useState(false)                       (line 56)
    theme,            \* useTheme()                            (line 57)
    toast,            \* the notification shown by useToast()  (line 58)
    view,             \* the selected tab of <Tabs>            (line 486)
    storage,          \* localStorage["calendar-events"]: <<>> (no item) or <<text>>
    pending,          \* the queued setEvents() of the load effect: <<>> or <<value>>
    pc,               \* where React is: "mount", "mountSave", "rerender", "save", "ready"
    issued,           \* how many UUIDs crypto.randomUUID() has handed out
    today,            \* the host clock's local calendar day (new Date())
    restarting        \* history: while a start-up runs, <<the list the closed page
                      \* held>> (<<>> before the first start); <<>> once it is done

vars == <<currentDate, events, selectedDate, newEvent, eventDialogOpen, theme,
          toast, view, storage, pending, pc, issued, today, restarting>>

(***************************************************************************)
(* Bounds of the model.                                                    *)
(***************************************************************************)
\* the add-event form is not submitted once the list holds this many events
MaxEvents == 2
\* the application specification keeps the reference date within this many
\* months, counted from the month of today
AppMonths == 2
\* the navigation specification keeps the reference date within this many
\* years around the year of today
NavYearRadius == 1

(***************************************************************************)
(* ECMAScript date arithmetic (the Date methods the handlers and date-fns  *)
(* call), on day numbers.  Months are 0..11 as in JavaScript.              *)
(***************************************************************************)
Min(a, b) == IF a <= b THEN a ELSE b

DaysInYear(y) ==
    IF y % 4 # 0 THEN 365
    ELSE IF y % 100 # 0 THEN 366
    ELSE IF y % 400 # 0 THEN 365
    ELSE 366

InLeapYear(y) == IF DaysInYear(y) = 366 THEN 1 ELSE 0

DayFromYear(y) ==
    365 * (y - 1970) + ((y - 1969) \div 4) - ((y - 1901) \div 100) + ((y - 1601) \div 400)

\* YearFromTime of ECMAScript
YearFromDay(t) ==
    CHOOSE y \in (1970 + (t \div 366) - 1)..(1970 + (t \div 365) + 1) :
        DayFromYear(y) <= t /\ t < DayFromYear(y + 1)

\* the day within the year on which month m (0..12) starts
MonthStart(m, leap) ==
    CASE m = 0 -> 0
      [] m = 1 -> 31
      [] m = 2 -> 59 + leap
      [] m = 3 -> 90 + leap
      [] m = 4 -> 120 + leap
      [] m = 5 -> 151 + leap
      [] m = 6 -> 181 + leap
      [] m = 7 -> 212 + leap
      [] m = 8 -> 243 + leap
      [] m = 9 -> 273 + leap
      [] m = 10 -> 304 + leap
      [] m = 11 -> 334 + leap
      [] m = 12 -> 365 + leap

DayWithinYear(t) == t - DayFromYear(YearFromDay(t))

\* MonthFromTime of ECMAScript
MonthFromDay(t) ==
    LET leap == InLeapYear(YearFromDay(t))
        d == DayWithinYear(t)
    IN CHOOSE m \in 0..11 : MonthStart(m, leap) <= d /\ d < MonthStart(m + 1, leap)

\* DateFromTime of ECMAScript
DateFromDay(t) ==
    DayWithinYear(t) - MonthStart(MonthFromDay(t), InLeapYear(YearFromDay(t))) + 1

\* the days the model computes with: 2000-01-01 .. 2049-12-31
CalendarDays == DayFromYear(2000)..(DayFromYear(2050) - 1)

\* year, month and day of the month of every day, computed once
Civil ==
    [t \in CalendarDays |->
        [year |-> YearFromDay(t), month |-> MonthFromDay(t), date |-> DateFromDay(t)]]

\* Date.prototype.getFullYear, getMonth, getDate
getFullYear(t) == Civil[t].year

getMonth(t) == Civil[t].month

getDate(t) == Civil[t].date

\* Date.prototype.getDay (1970-01-01 was a Thursday)
getDay(t) == (t + 4) % 7

\* MakeDay(year, month, date) of ECMAScript: month and date may lie outside
\* their ranges and then carry into the year and the following months
MakeDay(year, month, date) ==
    LET ym == year + (month \div 12)
        mn == month % 12
    IN DayFromYear(ym) + MonthStart(mn, InLeapYear(ym)) + date - 1

\* Date.prototype.setFullYear(year): month and day of the month are kept
setFullYear(t, year) == MakeDay(year, getMonth(t), getDate(t))

\* Date.prototype.setMonth(month): year and day of the month are kept
setMonth(t, month) == MakeDay(getFullYear(t), month, getDate(t))

(***************************************************************************)
(* date-fns                                                                *)
(***************************************************************************)
addMonthsNoClamp(t, amount) == setMonth(t, getMonth(t) + amount)

\* addMonths: the last day of the desired month is computed first and the
\* day of the month is kept only when it is smaller
addMonths(t, amount) ==
    LET dayOfMonth == getDate(t)
        endOfDesiredMonth == MakeDay(getFullYear(t), getMonth(t) + amount + 1, 0)
        daysInMonth == getDate(endOfDesiredMonth)
    IN IF dayOfMonth >= daysInMonth
       THEN endOfDesiredMonth
       ELSE MakeDay(getFullYear(endOfDesiredMonth), getMonth(endOfDesiredMonth), dayOfMonth)

subMonths(t, amount) == addMonths(t, 0 - amount)

startOfMonth(t) == MakeDay(getFullYear(t), getMonth(t), 1)

endOfMonthOffByOne(t) == MakeDay(getFullYear(t), getMonth(t) + 1, 1)

endOfMonth(t) == MakeDay(getFullYear(t), getMonth(t) + 1, 0)

\* eachDayOfInterval: from start, one day at a time, while not after end
eachDayOfInterval(start, end) ==
    IF end < start THEN <<>> ELSE [i \in 1..(end - start + 1) |-> start + i - 1]

(***************************************************************************)
(* Strings                                                                 *)
(***************************************************************************)
Digit(d) == <<"0", "1", "2", "3", "4", "5", "6", "7", "8", "9">>[d + 1]

DigitValue(c) == CHOOSE d \in 0..9 : Digit(d) = c

\* Number.prototype.toString of a non-negative integer
RECURSIVE toString(_)
toString(n) == IF n < 10 THEN <<Digit(n)>> ELSE Append(toString(n \div 10), Digit(n % 10))

\* Number.parseInt of a string of decimal digits
RECURSIVE parseInt(_)
parseInt(s) ==
    IF Len(s) = 0 THEN 0
    ELSE 10 * parseInt(SubSeq(s, 1, Len(s) - 1)) + DigitValue(s[Len(s)])

\* zero padding of date-fns' formatters
RECURSIVE addLeadingZeros(_, _)
addLeadingZeros(s, targetLength) ==
    IF Len(s) >= targetLength THEN s ELSE addLeadingZeros(<<"0">> \o s, targetLength)

\* format(date, "yyyy-MM-dd")
format(t) ==
    addLeadingZeros(toString(getFullYear(t)), 4) \o <<"-">>
        \o addLeadingZeros(toString(getMonth(t) + 1), 2) \o <<"-">>
        \o addLeadingZeros(toString(getDate(t)), 2)

\* String.prototype.trim
trim(s) ==
    LET ink == {i \in 1..Len(s) : s[i] # " "}
    IN IF ink = {} THEN <<>>
       ELSE SubSeq(s, CHOOSE i \in ink : \A j \in ink : i <= j,
                      CHOOSE i \in ink : \A j \in ink : j <= i)

\* the month names of the dropdown (line 65): format(new Date(2000, i, 1), "MMMM")
months ==
    <<"January", "February", "March", "April", "May", "June", "July",
      "August", "September", "October", "November", "December">>

\* Array.prototype.findIndex (0-based; -1 when nothing matches)
findIndex(arr, x) ==
    IF \E i \in 1..Len(arr) : arr[i] = x
    THEN (CHOOSE i \in 1..Len(arr) : arr[i] = x /\ \A j \in 1..(i - 1) : arr[j] # x) - 1
    ELSE 0 - 1

\* the years of the dropdown (line 62): the current year - 10 .. + 10
years == [i \in 1..21 |-> getFullYear(today) - 10 + (i - 1)]

(***************************************************************************)
(* JSON.stringify and JSON.parse on the event list                         *)
(***************************************************************************)
KeyDate == <<"d", "a", "t", "e">>
KeyTitle == <<"t", "i", "t", "l", "e">>
KeyDescription == <<"d", "e", "s", "c", "r", "i", "p", "t", "i", "o", "n">>
KeyColor == <<"c", "o", "l", "o", "r">>
KeyId == <<"i", "d">>

\* the default colour of the form (lines 54 and 147)
DefaultColor == <<"#", "4", "f", "4", "6", "e", "5">>

RECURSIVE Quote(_)
Quote(s) ==
    IF Len(s) = 0 THEN <<>>
    ELSE (IF Head(s) \in {"\"", "\\"} THEN <<"\\", Head(s)>> ELSE <<Head(s)>>) \o Quote(Tail(s))

QuoteJSONString(s) == <<"\"">> \o Quote(s) \o <<"\"">>

Member(key, value) == QuoteJSONString(key) \o <<":">> \o QuoteJSONString(value)

\* the keys in creation order: the spread of newEvent, then id (lines 136-140)
SerializeEvent(e) ==
    <<"{">> \o Member(KeyDate, e.date) \o <<",">> \o Member(KeyTitle, e.title) \o <<",">>
        \o Member(KeyDescription, e.description) \o <<",">> \o Member(KeyColor, e.color)
        \o <<",">> \o Member(KeyId, e.id) \o <<"}">>

RECURSIVE SerializeElements(_)
SerializeElements(list) ==
    IF Len(list) = 0 THEN <<>>
    ELSE IF Len(list) = 1 THEN SerializeEvent(list[1])
    ELSE SerializeEvent(list[1]) \o <<",">> \o SerializeElements(Tail(list))

JSONstringify(list) == <<"[">> \o SerializeElements(list) \o <<"]">>

RECURSIVE ReadStringKeepsEscapes(_, _, _)
ReadStringKeepsEscapes(text, i, acc) ==
    IF text[i] = "\"" THEN [val |-> acc, next |-> i + 1]
    ELSE IF text[i] = "\\"
         THEN ReadStringKeepsEscapes(text, i + 2, acc \o <<text[i], text[i + 1]>>)
    ELSE ReadStringKeepsEscapes(text, i + 1, Append(acc, text[i]))

\* reads a string literal whose opening quote is at i - 1
RECURSIVE ReadString(_, _, _)
ReadString(text, i, acc) ==
    IF text[i] = "\"" THEN [val |-> acc, next |-> i + 1]
    ELSE IF text[i] = "\\" THEN ReadString(text, i + 2, Append(acc, text[i + 1]))
    ELSE ReadString(text, i + 1, Append(acc, text[i]))

\* reads the members of an object; text[i] is the opening quote of a key
RECURSIVE ReadMembers(_, _, _)
ReadMembers(text, i, acc) ==
    LET k == ReadString(text, i + 1, <<>>)
        v == ReadString(text, k.next + 2, <<>>)
        acc2 == Append(acc, <<k.val, v.val>>)
    IN IF text[v.next] = ","
       THEN ReadMembers(text, v.next + 1, acc2)
       ELSE [val |-> acc2, next |-> v.next + 1]

ReadObject(text, i) ==
    IF text[i + 1] = "}" THEN [val |-> <<>>, next |-> i + 2] ELSE ReadMembers(text, i + 1, <<>>)

PropertyName(k) ==
    CASE k = KeyDate -> "date"
      [] k = KeyTitle -> "title"
      [] k = KeyDescription -> "description"
      [] k = KeyColor -> "color"
      [] k = KeyId -> "id"
      [] OTHER -> "other"

\* the object with the members read, a later member overriding an earlier one
ToObject(members) ==
    [f \in {PropertyName(members[j][1]) : j \in 1..Len(members)} |->
        members[CHOOSE j \in 1..Len(members) :
                    /\ PropertyName(members[j][1]) = f
                    /\ \A l \in (j + 1)..Len(members) : PropertyName(members[l][1]) # f][2]]

RECURSIVE ReadElements(_, _, _)
ReadElements(text, i, acc) ==
    LET o == ReadObject(text, i)
        acc2 == Append(acc, ToObject(o.val))
    IN IF text[o.next] = "," THEN ReadElements(text, o.next + 1, acc2) ELSE acc2

JSONparse(text) == IF text[2] = "]" THEN <<>> ELSE ReadElements(text, 2, <<>>)

(***************************************************************************)
(* The inputs the user types and picks                                     *)
(***************************************************************************)
\* titles typed into the form: empty, blank, and non-blank after a blank
Titles == {<<>>, <<" ">>, <<" ", "a">>}

\* descriptions typed into the form, one of them with characters JSON escapes
Descriptions == {<<>>, <<"\"", "\\">>}

\* colours picked in the form
Colors == {DefaultColor, <<"#", "0", "0", "0", "0", "0", "0">>}

\* the inputs of the form in the specification of the whole user interface
UiTitles == {<<>>, <<" ", "a">>}

UiDescriptions == {<<>>}

UiColors == {DefaultColor}

UiFormDates == {<<>>}

\* the day cells of the month grid the user clicks
ClickedCells == {1}

\* the host clock of the application specification
AppTodays == {MakeDay(2024, 0, 15)}

\* the host clocks of the navigation specification
NavTodays == {MakeDay(2024, 0, 31), MakeDay(2024, 1, 29), MakeDay(2023, 11, 30)}

\* the dates typed into the form's date field: "" (cleared) or the day after today
FormDates == {<<>>, format(today + 1)}

\* the k-th UUID crypto.randomUUID() returns: the UUIDs are opaque and only
\* compared for equality, a fresh one differs from all returned before
randomUUIDRepeats(k) == <<"u", "0">>

randomUUID(k) == <<"u">> \o toString(k)

\* the reference dates the application specification navigates to
AppWindow ==
    [lo |-> startOfMonth(today),
     hi |-> endOfMonth(addMonths(startOfMonth(today), AppMonths - 1))]

\* the reference dates the navigation specification navigates to
NavWindow ==
    [lo |-> MakeDay(getFullYear(today) - NavYearRadius, 0, 1),
     hi |-> MakeDay(getFullYear(today) + NavYearRadius, 11, 31)]

InWindow(w, t) == w.lo <= t /\ t <= w.hi

(***************************************************************************)
(* The component                                                           *)
(***************************************************************************)
\* the initial form contents (lines 50-55, 143-148)
EmptyForm == [date |-> <<>>, title |-> <<>>, description |-> <<>>, color |-> DefaultColor]

Mounted(d) ==
    /\ today = d
    /\ currentDate = d
    /\ events = <<>>
    /\ selectedDate = <<>>
    /\ newEvent = EmptyForm
    /\ eventDialogOpen = FALSE
    /\ theme = "light"
    /\ toast = "none"
    /\ view = "month"
    /\ storage = <<>>
    /\ pending = <<>>
    /\ pc = "mount"
    /\ issued = 0
    /\ restarting = << <<>> >>

Init == \E d \in AppTodays : Mounted(d)

InitNav == \E d \in NavTodays : Mounted(d)

\* the load effect (lines 71-76): runs once after the first render
LoadEffect ==
    /\ pc = "mount"
    /\ pending' = IF storage # <<>> /\ storage[1] # <<>>
                  THEN <<JSONparse(storage[1])>>
                  ELSE <<>>
    /\ pc' = "mountSave"
    /\ UNCHANGED <<currentDate, events, selectedDate, newEvent, eventDialogOpen, theme,
                   toast, view, storage, issued, today, restarting>>

\* the save effect (lines 79-81): runs after every render that changed events
SaveEffectSkipsWrite(list) == storage

SaveEffectWrite(list) == <<JSONstringify(list)>>

SaveEffect ==
    /\ pc \in {"mountSave", "save"}
    /\ storage' = SaveEffectWrite(events)
    /\ pc' = IF pending # <<>> THEN "rerender" ELSE "ready"
    /\ restarting' = IF pending # <<>> THEN restarting ELSE <<>>
    /\ UNCHANGED <<currentDate, events, selectedDate, newEvent, eventDialogOpen, theme,
                   toast, view, pending, issued, today>>

\* the render that applies the setEvents() queued by the load effect
Rerender ==
    /\ pc = "rerender"
    /\ events' = pending[1]
    /\ pending' = <<>>
    /\ pc' = "save"
    /\ UNCHANGED <<currentDate, selectedDate, newEvent, eventDialogOpen, theme,
                   toast, view, storage, issued, today, restarting>>

NavUnchanged ==
    UNCHANGED <<events, selectedDate, newEvent, eventDialogOpen, theme, toast, view,
                storage, pending, pc, issued, today, restarting>>

prevMonth(w) ==
    /\ pc = "ready"
    /\ InWindow(w, subMonths(currentDate, 1))
    /\ currentDate' = subMonths(currentDate, 1)
    /\ NavUnchanged

nextMonth(w) ==
    /\ pc = "ready"
    /\ InWindow(w, addMonths(currentDate, 1))
    /\ currentDate' = addMonths(currentDate, 1)
    /\ NavUnchanged

goToToday ==
    /\ pc = "ready"
    /\ currentDate' = today
    /\ NavUnchanged

\* the date handleYearChange sets for the option picked in the year dropdown
YearChanged(t, year) == setFullYear(t, parseInt(year))

handleYearChange(w) ==
    /\ pc = "ready"
    /\ LET options == years
       IN \E i \in 1..Len(options) :
            LET newDate == YearChanged(currentDate, toString(options[i]))
            IN /\ InWindow(w, newDate)
               /\ currentDate' = newDate
    /\ NavUnchanged

\* the date handleMonthChange sets for the option picked in the month dropdown
MonthChanged(t, month) == setMonth(t, findIndex(months, month))

handleMonthChange(w) ==
    /\ pc = "ready"
    /\ \E i \in 1..Len(months) :
        LET newDate == MonthChanged(currentDate, months[i])
        IN /\ InWindow(w, newDate)
           /\ currentDate' = newDate
    /\ NavUnchanged

\* getDaysInMonth (lines 114-118) and getDaysInMonthForYear (lines 331-335)
getDaysInMonth(t) == eachDayOfInterval(startOfMonth(t), endOfMonth(t))

getFirstDayOfMonth(t) == getDay(startOfMonth(t))

\* Array.prototype.filter; keep is the callback, as a function on the elements
RECURSIVE filter(_, _)
filter(list, keep) ==
    IF Len(list) = 0 THEN <<>>
    ELSE (IF keep[Head(list)] THEN <<Head(list)>> ELSE <<>>) \o filter(Tail(list), keep)

getEventsForDateFirstOnly(list, t) ==
    LET dateString == format(t)
        hits == {i \in 1..Len(list) : list[i].date = dateString}
    IN IF hits = {} THEN <<>> ELSE <<list[CHOOSE i \in hits : \A j \in hits : i <= j]>>

\* getEventsForDate (lines 158-161)
getEventsForDate(list, t) ==
    LET dateString == format(t)
        keep == [event \in {list[i] : i \in 1..Len(list)} |-> event.date = dateString]
    IN filter(list, keep)

FormUnchanged ==
    UNCHANGED <<currentDate, events, theme, view, storage, pending, pc, issued, today,
                restarting>>

\* the onClick of a day cell of the month grid (lines 215-222)
DayClick ==
    /\ pc = "ready"
    /\ view = "month"
    /\ \E i \in ClickedCells \cap (1..Len(getDaysInMonth(currentDate))) :
        LET day == getDaysInMonth(currentDate)[i]
        IN /\ selectedDate' = <<day>>
           /\ newEvent' = [newEvent EXCEPT !.date = format(day)]
    /\ eventDialogOpen' = TRUE
    /\ UNCHANGED toast
    /\ FormUnchanged

\* onOpenChange of the dialog (line 421): the "Add Event" trigger opens it
OpenDialog ==
    /\ pc = "ready"
    /\ eventDialogOpen' = TRUE
    /\ UNCHANGED <<selectedDate, newEvent, toast>>
    /\ FormUnchanged

\* the Cancel button (line 476) and onOpenChange(false)
CloseDialog ==
    /\ pc = "ready"
    /\ eventDialogOpen
    /\ eventDialogOpen' = FALSE
    /\ UNCHANGED <<selectedDate, newEvent, toast>>
    /\ FormUnchanged

\* the onChange handlers of the form fields (lines 440, 449, 458, 468)
EditDate(inputs) ==
    /\ pc = "ready"
    /\ eventDialogOpen
    /\ \E v \in inputs : newEvent' = [newEvent EXCEPT !.date = v]
    /\ UNCHANGED <<selectedDate, eventDialogOpen, toast>>
    /\ FormUnchanged

EditTitle(inputs) ==
    /\ pc = "ready"
    /\ eventDialogOpen
    /\ \E v \in inputs : newEvent' = [newEvent EXCEPT !.title = v]
    /\ UNCHANGED <<selectedDate, eventDialogOpen, toast>>
    /\ FormUnchanged

EditDescription(inputs) ==
    /\ pc = "ready"
    /\ eventDialogOpen
    /\ \E v \in inputs : newEvent' = [newEvent EXCEPT !.description = v]
    /\ UNCHANGED <<selectedDate, eventDialogOpen, toast>>
    /\ FormUnchanged

EditColor(inputs) ==
    /\ pc = "ready"
    /\ eventDialogOpen
    /\ \E v \in inputs : newEvent' = [newEvent EXCEPT !.color = v]
    /\ UNCHANGED <<selectedDate, eventDialogOpen, toast>>
    /\ FormUnchanged

\* the guard of handleAddEvent (line 127)
TitleMissingUntrimmed(form) == form.title = <<>>

TitleMissing(form) == trim(form.title) = <<>>

\* eventToAdd (lines 136-140)
EventToAdd(form, sel, id, now) ==
    [date |-> IF sel # <<>> THEN format(sel[1]) ELSE format(now),
     title |-> form.title, description |-> form.description, color |-> form.color,
     id |-> id]

\* setEvents([...events, eventToAdd]) (line 142)
ExtendedPrepends(list, e) == <<e>> \o list

Extended(list, e) == Append(list, e)

\* handleAddEvent, the title missing (lines 127-134)
handleAddEventRejected ==
    /\ pc = "ready"
    /\ eventDialogOpen
    /\ TitleMissing(newEvent)
    /\ toast' = "Error"
    /\ UNCHANGED <<selectedDate, newEvent, eventDialogOpen>>
    /\ FormUnchanged

\* handleAddEvent, the title given (lines 136-154), and the render it causes
handleAddEventAccepted ==
    /\ pc = "ready"
    /\ eventDialogOpen
    /\ ~TitleMissing(newEvent)
    /\ Len(events) < MaxEvents
    /\ events' = Extended(events, EventToAdd(newEvent, selectedDate, randomUUID(issued + 1), today))
    /\ issued' = issued + 1
    /\ newEvent' = EmptyForm
    /\ eventDialogOpen' = FALSE
    /\ toast' = "Event added"
    /\ pc' = "save"
    /\ UNCHANGED <<currentDate, selectedDate, theme, view, storage, pending, today,
                   restarting>>

exportAsPDF ==
    /\ pc = "ready"
    /\ toast' = "Export initiated"
    /\ UNCHANGED <<selectedDate, newEvent, eventDialogOpen>>
    /\ FormUnchanged

exportAsImage ==
    /\ pc = "ready"
    /\ toast' = "Export initiated"
    /\ UNCHANGED <<selectedDate, newEvent, eventDialogOpen>>
    /\ FormUnchanged

printCalendar ==
    /\ pc = "ready"
    /\ UNCHANGED vars

toggleTheme ==
    /\ pc = "ready"
    /\ theme' = IF theme = "dark" THEN "light" ELSE "dark"
    /\ UNCHANGED <<currentDate, events, selectedDate, newEvent, eventDialogOpen,
                   toast, view, storage, pending, pc, issued, today, restarting>>

\* the tabs "Month View" and "Year View" (lines 486-490)
SwitchView ==
    /\ pc = "ready"
    /\ \E v \in {"month", "year"} : view' = v
    /\ UNCHANGED <<currentDate, events, selectedDate, newEvent, eventDialogOpen,
                   theme, toast, storage, pending, pc, issued, today, restarting>>

\* the page is closed and opened again: the component state starts afresh,
\* localStorage, the theme (kept by next-themes) and the UUID source stay
Reload ==
    /\ pc = "ready"
    /\ currentDate' = today
    /\ events' = <<>>
    /\ selectedDate' = <<>>
    /\ newEvent' = EmptyForm
    /\ eventDialogOpen' = FALSE
    /\ toast' = "none"
    /\ view' = "month"
    /\ pending' = <<>>
    /\ pc' = "mount"
    /\ restarting' = <<events>>
    /\ UNCHANGED <<theme, storage, issued, today>>

\* the event store: start-up, the day cells, the form, and a reload of the page
Next ==
    \/ LoadEffect
    \/ SaveEffect
    \/ Rerender
    \/ DayClick
    \/ OpenDialog
    \/ CloseDialog
    \/ EditDate(FormDates)
    \/ EditTitle(Titles)
    \/ EditDescription(Descriptions)
    \/ EditColor(Colors)
    \/ handleAddEventRejected
    \/ handleAddEventAccepted
    \/ Reload

Spec == Init /\ [][Next]_vars

\* navigation alone, over a window of years
NextNav ==
    \/ LoadEffect
    \/ SaveEffect
    \/ prevMonth(NavWindow)
    \/ nextMonth(NavWindow)
    \/ goToToday
    \/ handleYearChange(NavWindow)
    \/ handleMonthChange(NavWindow)

SpecNav == InitNav /\ [][NextNav]_vars

\* every operation of the user interface, the form filled from small sets
NextUi ==
    \/ LoadEffect
    \/ SaveEffect
    \/ Rerender
    \/ prevMonth(AppWindow)
    \/ nextMonth(AppWindow)
    \/ goToToday
    \/ handleYearChange(AppWindow)
    \/ handleMonthChange(AppWindow)
    \/ DayClick
    \/ OpenDialog
    \/ CloseDialog
    \/ EditDate(UiFormDates)
    \/ EditTitle(UiTitles)
    \/ EditDescription(UiDescriptions)
    \/ EditColor(UiColors)
    \/ handleAddEventRejected
    \/ handleAddEventAccepted
    \/ exportAsPDF
    \/ exportAsImage
    \/ printCalendar
    \/ toggleTheme
    \/ SwitchView
    \/ Reload

SpecUi == Init /\ [][NextUi]_vars

(***************************************************************************)
(* Notions the properties are stated with, defined apart from the model    *)
(***************************************************************************)
\* a title with nothing but blanks in it (the empty title included)
Blank(s) == \A i \in 1..Len(s) : s[i] = " "

IsPrefix(a, b) == Len(a) <= Len(b) /\ \A i \in 1..Len(a) : b[i] = a[i]

UniqueIds(list) == \A i, j \in 1..Len(list) : i # j => list[i].id # list[j].id

\* the YYYY-MM-DD form of a calendar day
IsoDate(y, m, d) ==
    <<Digit(y \div 1000), Digit((y \div 100) % 10), Digit((y \div 10) % 10), Digit(y % 10),
      "-", Digit(m \div 10), Digit(m % 10), "-", Digit(d \div 10), Digit(d % 10)>>

IsoOf(t) == IsoDate(Civil[t].year, Civil[t].month + 1, Civil[t].date)

\* the length of month m (0..11) of year y by the Gregorian rules
MonthLength(y, m) ==
    IF m \in {3, 5, 8, 10} THEN 30
    ELSE IF m # 1 THEN 31
    ELSE IF (y % 4 = 0 /\ y % 100 # 0) \/ y % 400 = 0 THEN 29
    ELSE 28

\* months counted from year 0
MonthIndex(t) == 12 * Civil[t].year + Civil[t].month

\* a step in which handleAddEvent accepts the form: the only step that leaves
\* the idle state for a pending save effect
AddStep == pc = "ready" /\ pc' = "save"

\* a step in which the form is submitted: the dialog is open, and the step is
\* handleAddEvent's
SubmitStep == handleAddEventRejected \/ handleAddEventAccepted

(***************************************************************************)
(* C1: submitting the add-event form with an empty or blank title is       *)
(* rejected: the event list and the persisted copy stay as they are, no    *)
(* write is pending, the error notification is shown, and the form stays   *)
(* open with its four fields unchanged.                                    *)
(***************************************************************************)
BlankTitleRejected ==
    [][(SubmitStep /\ Blank(newEvent.title)) =>
           /\ events' = events
           /\ storage' = storage
           /\ pc' = "ready"
           /\ toast' = "Error"
           /\ eventDialogOpen'
           /\ newEvent' = newEvent]_vars

\* a whitespace-only title was submitted to a store holding an event, with the
\* other fields filled in
BlankTitleRejectedWitness ==
    /\ toast = "Error"
    /\ eventDialogOpen
    /\ newEvent.title = <<" ">>
    /\ newEvent.description # <<>>
    /\ newEvent.color # DefaultColor
    /\ newEvent.date # <<>>
    /\ Len(events) = 1
    /\ pc = "ready"

(***************************************************************************)
(* C2: a successfully added event is stored under the date the form's date *)
(* field holds at submission, and under today only when that field is      *)
(* empty; getEventsForDate for that day then includes the new event.       *)
(***************************************************************************)
StoredUnderFormDate ==
    [][AddStep =>
           LET added == events'[Len(events')]
               given == IF newEvent.date # <<>> THEN newEvent.date ELSE IsoOf(today)
           IN /\ added.date = given
              /\ \E i \in 1..Len(events') : events'[i].date = given /\ events'[i].id = added.id]_vars

(***************************************************************************)
(* C3: a successful add (title not blank) makes the list longer by exactly *)
(* one: the new event is the last, the events stored before keep content   *)
(* and order, and the new id differs from every id stored before; ids are  *)
(* pairwise different in every state.                                      *)
(***************************************************************************)
AddAppendsFreshId ==
    /\ [][AddStep =>
              /\ ~Blank(newEvent.title)
              /\ Len(events') = Len(events) + 1
              /\ SubSeq(events', 1, Len(events)) = events
              /\ \A i \in 1..Len(events) : events[i].id # events'[Len(events')].id
              /\ events'[Len(events')].title = newEvent.title
              /\ events'[Len(events')].description = newEvent.description
              /\ events'[Len(events')].color = newEvent.color]_vars
    /\ [](UniqueIds(events) /\ (pending # <<>> => UniqueIds(pending[1])))

\* a second event has just been added, after a reload of the page: the save
\* effect has not yet written it
AddAppendsFreshIdWitness ==
    /\ pc = "save"
    /\ Len(events) = 2
    /\ toast = "Event added"
    /\ storage = <<JSONstringify(<<events[1]>>)>>
    /\ events[1].date = events[2].date
    /\ events[1].title = events[2].title

(***************************************************************************)
(* C4: for every event list and every day, getEventsForDate returns        *)
(* exactly the events whose date field equals the day's YYYY-MM-DD form,   *)
(* in the order they have in the list.                                     *)
(***************************************************************************)
\* the days asked for: the first and the last day of the displayed month,
\* today and its neighbours (the days that carry events lie among them)
DaysAsked ==
    {startOfMonth(currentDate), endOfMonth(currentDate), today - 1, today, today + 1}

\* the k-th smallest member of a set of indices
Nth(idx, k) == CHOOSE i \in idx : Cardinality({j \in idx : j <= i}) = k

EventsOnExact ==
    \A t \in DaysAsked :
        LET iso == IsoOf(t)
            hits == {i \in 1..Len(events) : events[i].date = iso}
            got == getEventsForDate(events, t)
        IN /\ Len(got) = Cardinality(hits)
           /\ \A k \in 1..Len(got) : got[k] = events[Nth(hits, k)]

\* two events on one day, or two events of which the day has only the second
EventsOnExactWitness ==
    /\ pc = "ready"
    /\ Len(events) = 2
    /\ events[1].date # events[2].date
    /\ events[1].id # events[2].id
    /\ getEventsForDate(events, today) = <<events[2]>>

(***************************************************************************)
(* C5: whenever a user action can occur (navigation, a day click, a form   *)
(* submit: the idle state), localStorage holds a written collection and    *)
(* that collection equals the in-memory event list.                        *)
(***************************************************************************)
PersistedWhenIdle ==
    pc = "ready" => storage # <<>> /\ JSONparse(storage[1]) = events

\* idle after two adds, one event with characters that JSON escapes
PersistedWhenIdleWitness ==
    /\ pc = "ready"
    /\ Len(events) = 2
    /\ events[1].description # <<>>
    /\ events[2].description = <<>>
    /\ toast = "Event added"

(***************************************************************************)
(* C6: a start-up after the page was closed with list E saved ends with    *)
(* the in-memory list equal to E (same events, fields and order) and with  *)
(* E persisted; a start-up without persisted data ends with the empty      *)
(* list.                                                                   *)
(***************************************************************************)
RestartRestoresEvents ==
    [][(restarting # <<>> /\ pc' = "ready") =>
           /\ events' = restarting[1]
           /\ storage' # <<>>
           /\ JSONparse(storage'[1]) = restarting[1]
           /\ (storage = <<>> => events' = <<>>)]_vars

\* a start-up has ended with two events read back, one of them with
\* characters that JSON escapes and a colour picked by the user
RestartRestoresEventsWitness ==
    /\ pc = "ready"
    /\ Len(events) = 2
    /\ toast = "none"
    /\ events[1].description # <<>>
    /\ events[2].color # DefaultColor
    /\ events[1].date # events[2].date

(***************************************************************************)
(* C7: for the reference date d, and for the first day of each month of    *)
(* d's year as the year view asks, getDaysInMonth lists every day of the   *)
(* month from the first to the last in ascending order without gaps: all   *)
(* of the month and year asked for, d itself exactly once, and 28 to 31    *)
(* entries by the month and leap-year rules; for 2024-02-01 it lists 29    *)
(* entries, the last being 2024-02-29.                                     *)
(***************************************************************************)
WholeMonth(d) ==
    LET days == getDaysInMonth(d)
        y == Civil[d].year
        m == Civil[d].month
    IN /\ Len(days) = MonthLength(y, m)
       /\ Len(days) \in 28..31
       /\ \A i \in 1..Len(days) :
            /\ Civil[days[i]].year = y
            /\ Civil[days[i]].month = m
            /\ Civil[days[i]].date = i
       /\ \A i \in 1..(Len(days) - 1) : days[i + 1] = days[i] + 1
       /\ Cardinality({i \in 1..Len(days) : days[i] = d}) = 1
       /\ Civil[days[1] - 1].month # m
       /\ Civil[days[Len(days)] + 1].month # m

MonthDaysComplete ==
    /\ WholeMonth(currentDate)
    /\ \A monthIndex \in 0..11 : WholeMonth(MakeDay(getFullYear(currentDate), monthIndex, 1))
    /\ Len(getDaysInMonth(MakeDay(2024, 1, 1))) = 29
    /\ getDaysInMonth(MakeDay(2024, 1, 1))[29] = MakeDay(2024, 1, 29)

\* the reference date is the last day of February of a leap year, reached
\* from 31 January
MonthDaysCompleteWitness ==
    /\ pc = "ready"
    /\ today = MakeDay(2024, 0, 31)
    /\ IsoOf(currentDate) = IsoDate(2024, 2, 29)
    /\ Len(getDaysInMonth(currentDate)) = 29

(***************************************************************************)
(* C8: picking a month or a year replaces only that component of the       *)
(* reference date: the date then lies in the month picked, of the same     *)
(* year (in the year picked, same month), with the day of the month kept   *)
(* when the target month has it and otherwise clamped to the target        *)
(* month's last day.                                                       *)
(***************************************************************************)
PickReplacesComponent ==
    [][/\ \A i \in 1..Len(months) :
            (pc = "ready" /\ currentDate' = MonthChanged(currentDate, months[i])) =>
                /\ Civil[currentDate'].month = i - 1
                /\ Civil[currentDate'].year = Civil[currentDate].year
                /\ Civil[currentDate'].date =
                     Min(Civil[currentDate].date, MonthLength(Civil[currentDate].year, i - 1))
       /\ \A i \in 1..Len(years) :
            (pc = "ready" /\ currentDate' = YearChanged(currentDate, toString(years[i]))) =>
                /\ Civil[currentDate'].year = years[i]
                /\ Civil[currentDate'].month = Civil[currentDate].month
                /\ Civil[currentDate'].date =
                     Min(Civil[currentDate].date,
                         MonthLength(years[i], Civil[currentDate].month))]_vars

(***************************************************************************)
(* C9: prevMonth and nextMonth move the reference date by exactly one      *)
(* calendar month, the day of the month kept or clamped to the length of   *)
(* the target month; prevMonth after nextMonth gives back the month and    *)
(* year, also over a year's end, and the date itself when its day exists   *)
(* in the following month.                                                 *)
(***************************************************************************)
OneMonthShift ==
    LET d == currentDate
        n == addMonths(d, 1)
        p == subMonths(d, 1)
        back == subMonths(n, 1)
    IN /\ MonthIndex(n) = MonthIndex(d) + 1
       /\ Civil[n].date = Min(Civil[d].date, MonthLength(Civil[n].year, Civil[n].month))
       /\ MonthIndex(p) = MonthIndex(d) - 1
       /\ Civil[p].date = Min(Civil[d].date, MonthLength(Civil[p].year, Civil[p].month))
       /\ MonthIndex(back) = MonthIndex(d)
       /\ (Civil[d].date <= MonthLength(Civil[n].year, Civil[n].month) => back = d)

\* nextMonth has clamped 31 January to 29 February, and a reference date in
\* December is followed by January of the next year
OneMonthShiftWitness ==
    /\ pc = "ready"
    /\ today = MakeDay(2024, 0, 31)
    /\ \/ IsoOf(currentDate) = IsoDate(2024, 2, 29)
       \/ IsoOf(currentDate) = IsoDate(2023, 12, 31)
    /\ IsoOf(currentDate) = IsoDate(2024, 2, 29) => subMonths(currentDate, 1) # today

(***************************************************************************)
(* C10: within a session (from the mount of the page until it is closed)   *)
(* the event list of a state is a prefix of the list of every later state; *)
(* once the page is idle only an accepted submission of the form changes   *)
(* the list, by one event; and only a navigation action (previous or next  *)
(* month, today, a month or a year picked) changes the reference date,     *)
(* leaving everything else as it is.                                       *)
(***************************************************************************)
NavTargets ==
    {subMonths(currentDate, 1), addMonths(currentDate, 1), today}
        \cup {MonthChanged(currentDate, months[i]) : i \in 1..Len(months)}
        \cup {YearChanged(currentDate, toString(years[i])) : i \in 1..Len(years)}

EventsOnlyGrow ==
    [][pc' # "mount" =>
           /\ IsPrefix(events, events')
           /\ (pc = "ready" /\ events' # events) =>
                 /\ eventDialogOpen
                 /\ ~Blank(newEvent.title)
                 /\ Len(events') = Len(events) + 1
                 /\ toast' = "Event added"
                 /\ currentDate' = currentDate
           /\ currentDate' # currentDate =>
                 /\ pc = "ready"
                 /\ currentDate' \in NavTargets
                 /\ UNCHANGED <<events, selectedDate, newEvent, eventDialogOpen, theme, toast,
                                view, storage, pending, pc, issued, today>>]_vars

\* two events were added, the second after the first; the user has navigated
\* to another month, switched to the year view and the dark theme, and asked
\* for an export
EventsOnlyGrowWitness ==
    /\ pc = "ready"
    /\ Len(events) = 2
    /\ events[1].id = randomUUID(1)
    /\ events[2].id = randomUUID(2)
    /\ currentDate # today
    /\ view = "year"
    /\ theme = "dark"
    /\ toast = "Export initiated"

(***************************************************************************)
(* C11: while the page starts up over a storage that holds a non-empty     *)
(* event list P, in every state of the start-up sequence (the load effect, *)
(* the save effect of the first render, the render of the loaded list, the *)
(* save effect of that render) the stored text still parses to P; storage  *)
(* never holds the empty list in between.                                  *)
(***************************************************************************)
StartupKeepsStorage ==
    (restarting # <<>> /\ restarting[1] # <<>>) =>
        /\ storage # <<>>
        /\ JSONparse(storage[1]) = restarting[1]

====
